---- MODULE Spec2Model ----
(***************************************************************************)
(* The pack-design client (static app.js) and the part of the backend it   *)
(* talks to, as a state machine.  The client is single-threaded: a handler *)
(* runs from its start to its first await, and from one await to the next, *)
(* without interruption.  Each action below is one such stretch.           *)
(*                                                                         *)
(* A text is a sequence of one-character strings; a URL is a sequence too  *)
(* (empty when absent).  JavaScript indexes attempts from 0, the sequence  *)
(* cadAttemptStates from 1: attempt k is cadAttemptStates[k + 1].          *)
(*                                                                         *)
(* The backend is not part of the sources.  Its session record and cache   *)
(* (srv, cache, and the Srv... operators) follow the specification's       *)
(* sections 3, 4.1, 4.2, 4.4, 4.5 and 6 and the endpoint list of the       *)
(* README.  A request is processed by the backend at the step that         *)
(* delivers its response.                                                  *)
(*                                                                         *)
(* Specifications: Spec is the CAD loop with Stop and the brief upload,    *)
(* SpecLive the same with every awaited request settling, SpecRerun the    *)
(* loop run again while versions are approved and the cache is cleared,    *)
(* SpecFlow the workflow of a new session, SpecSummary the loop under      *)
(* failure responses of every text shape, SpecPrompt the loop while the    *)
(* prompt is saved and cleared, SpecBaseline (SpecBaselineLive with        *)
(* fairness) the timed baseline refresh of the chat, SpecScreens the       *)
(* handlers that set the active screen.                                    *)
(***************************************************************************)
EXTENDS Integers, Sequences, FiniteSets, TLC

VARIABLES
  session,                   \* state.session: the last session state fetched
  srv,                       \* the backend's session record
  cache,                     \* the backend's CAD cache: key -> artifact
  operationInFlight,
  stepCadLoopRunning,
  stepCadLoopStopRequested,
  cadAttemptStates,
  currentStepCadPrompt,
  storedStepPrompt,          \* localStorage[STEP_PROMPT_STORAGE_KEY]
  el,                        \* the DOM elements the CAD panel writes
  messages,                  \* what generateStepCad, its click handler and Stop reported since the run began
  pc,                        \* where generateStepCad is suspended
  i, currentCode, currentError, success, prompt,   \* locals of generateStepCad
  outstanding,               \* the CAD requests awaiting their response
  lastRes,                   \* the response of the previous attempt of this run
  requestCount,              \* requests issued by the current run, per endpoint
  stopAt,                    \* the attempt in flight when Stop was first clicked
  briefUploading,            \* uploadMarketingBrief is between its start and its finally
  runs,                      \* generateStepCad runs started
  activeScreen,              \* state.activeScreen (kept in sessionStorage)
  pending,                   \* generate2D / runManualEdit handlers between start and finally
  notice,                    \* the message of the last click that was turned down
  baselineLoadingInProgress,
  baselineRefreshes,         \* refreshSessionWithBaselineDelay calls between start and end
  now                        \* Date.now(), in ms since the page was loaded

vars == << session, srv, cache, operationInFlight, stepCadLoopRunning,
           stepCadLoopStopRequested, cadAttemptStates, currentStepCadPrompt,
           storedStepPrompt, el, messages, pc, i, currentCode, currentError,
           success, prompt, outstanding, lastRes, requestCount, stopAt,
           briefUploading, runs, activeScreen, pending, notice,
           baselineLoadingInProgress, baselineRefreshes, now >>

\* the baseline loading state, the refreshSessionWithBaselineDelay calls that
\* have not finished, and Date.now()
baselineVars == << baselineLoadingInProgress, baselineRefreshes, now >>

\* the part of the state that the CAD loop leaves alone
flowVars == << activeScreen, pending, notice, baselineVars >>

---------------------------------------------------------------------------
\* Bounds of the model.

\* generateStepCad runs started in one behaviour
MaxRuns == 2
\* failed attempts of one run whose response carries neither code nor error text
MaxBareFailures == 1
\* image versions one session holds
MaxImages == 2
\* attempts of one run in the workflow specification
MaxFlowAttempts == 2
\* generateStepCad runs started in one behaviour of the workflow specification
MaxFlowRuns == 1
MaxSummaryAttempts == 2
\* refreshSessionWithBaselineDelay calls that overlap
MaxBaselineRefreshes == 2
\* the step of the clock in ms, and the steps after which it stops unless a
\* sleep is still due
TickMs == 1000
MaxTicks == 4

\* Program constants.

\* the loop bound and the length of cadAttemptStates
MaxAttempts == 10
\* errorSummary's cut
SummaryLen == 140
BASELINE_MIN_DELAY_MS == 3000

---------------------------------------------------------------------------
\* Texts.

NoText == << >>
NoUrl == << >>

IsBlank(c) == c \in {" ", "\n"}

RECURSIVE TrimStart(_)
TrimStart(s) ==
  IF s = << >> THEN s
  ELSE IF IsBlank(Head(s)) THEN TrimStart(Tail(s)) ELSE s

RECURSIVE TrimEnd(_)
TrimEnd(s) ==
  IF s = << >> THEN s
  ELSE IF IsBlank(s[Len(s)]) THEN TrimEnd(SubSeq(s, 1, Len(s) - 1)) ELSE s

\* String.prototype.trim
Trim(s) == TrimEnd(TrimStart(s))

\* a || b on strings: the empty string is falsy
OrElse(a, b) == IF a # << >> THEN a ELSE b

\* t.split("\n")[0]
FirstLine(s) ==
  LET breaks == { j \in 1..Len(s) : s[j] = "\n" } IN
  IF breaks = { } THEN s
  ELSE SubSeq(s, 1, (CHOOSE j \in breaks : \A k \in breaks : j <= k) - 1)

\* s.slice(0, n)
Slice(s, n) == SubSeq(s, 1, IF Len(s) < n THEN Len(s) ELSE n)

\* a summary that is not cut to SummaryLen characters
errorSummaryUncut(text) == FirstLine(Trim(text))

errorSummary(text) ==
  LET t == Trim(text) IN
  IF t = << >> THEN << >> ELSE Slice(FirstLine(t), SummaryLen)

DEFAULT_STEP_CAD_PROMPT == << "d", "e", "f", "a", "u", "l", "t" >>
CadExecutionFailed ==
  << "C", "A", "D", " ", "e", "x", "e", "c", "u", "t", "i", "o", "n", " ",
     "f", "a", "i", "l", "e", "d", "." >>
SuccessText == << "S", "u", "c", "c", "e", "s", "s" >>

---------------------------------------------------------------------------
\* Attempt records.

InactiveAttempt ==
  [status |-> "inactive", errorText |-> NoText, fullError |-> NoText, codeText |-> NoText]

\* a start of a run that keeps the attempt states of the run before
resetCadAttemptsUiKept == cadAttemptStates

resetCadAttemptsUi == [k \in 1..MaxAttempts |-> InactiveAttempt]

\* { ...attempt, ...patch }
Merge(rec, patch) ==
  [f \in DOMAIN rec |-> IF f \in DOMAIN patch THEN patch[f] ELSE rec[f]]

updateAttemptStatus(states, index, patch) ==
  IF index < 0 \/ index >= Len(states) THEN states
  ELSE [states EXCEPT ![index + 1] = Merge(states[index + 1], patch)]

StatusOf(k) == cadAttemptStates[k + 1].status

---------------------------------------------------------------------------
\* The DOM elements of the CAD panel.

HiddenBtn == [hidden |-> TRUE, href |-> NoUrl]
ShownBtn(url) == [hidden |-> FALSE, href |-> url]

renderCadExecutionIssue(e, errorText, cadCode) ==
  [e EXCEPT !.cadAttemptDetailsHidden = FALSE,
            !.cadErrorText = Trim(errorText),
            !.fixCadCodeTextarea = cadCode]

hideCadExecutionIssue(e) ==
  [e EXCEPT !.cadAttemptDetailsHidden = TRUE,
            !.cadErrorText = NoText,
            !.fixCadCodeTextarea = NoText]

renderStepViewer(e, stepFile) ==
  IF stepFile = NoUrl
    THEN [e EXCEPT !.downloadStepBtn = HiddenBtn, !.downloadCadCodeBtn = HiddenBtn]
    ELSE [e EXCEPT !.downloadStepBtn = ShownBtn(stepFile)]

\* the CAD part of updateFromSession(s): the download buttons and the issue panel
updateFromSessionEl(e, s) ==
  LET e1 == IF s.cad_model_code_path # NoUrl
              THEN [e EXCEPT !.downloadCadCodeBtn = ShownBtn(s.cad_model_code_path)]
              ELSE [e EXCEPT !.downloadCadCodeBtn = HiddenBtn]
      e2 == IF s.cad_step_file # NoUrl
              THEN hideCadExecutionIssue(
                     [e1 EXCEPT !.downloadStepBtn = ShownBtn(s.cad_step_file)])
              ELSE IF s.cad_model_last_error # NoText \/ s.cad_model_code # NoText
                THEN renderCadExecutionIssue(
                       [e1 EXCEPT !.downloadStepBtn = HiddenBtn],
                       s.cad_model_last_error, s.cad_model_code)
                ELSE hideCadExecutionIssue([e1 EXCEPT !.downloadStepBtn = HiddenBtn])
  IN renderStepViewer(e2, s.cad_step_file)

\* the prompt part of updateFromSession(s)
updateFromSessionPrompt(s) ==
  IF s.cad_model_prompt # NoText /\ storedStepPrompt = NoText
    THEN s.cad_model_prompt
    ELSE currentStepCadPrompt

\* getSavedStepCadPrompt()
getSavedStepCadPrompt(stored) == OrElse(Trim(stored), DEFAULT_STEP_CAD_PROMPT)

---------------------------------------------------------------------------
\* The session as the client holds it.

NoSession == [null |-> TRUE]

computeAllowedScreen(step, hasBaselineMatch, hasImages, hasApproved) ==
  IF step = 3 /\ hasBaselineMatch THEN 2
  ELSE IF step <= 3 THEN 1
  ELSE IF ~hasImages THEN 2
  ELSE IF ~hasApproved THEN 3
  ELSE 4

Min(a, b) == IF a <= b THEN a ELSE b

\* the screen updateFromSession(s) leaves active
updateFromSessionScreen(screen, s) ==
  LET allowed == computeAllowedScreen(s.step, s.baseline_matches, s.images # << >>,
                                      s.approved_image_version # 0)
  IN IF screen = 5 THEN 5 ELSE Min(screen, allowed)

\* a gate that does not ask for an approved version
canGenerateStepCadNowUnapproved ==
  /\ session # NoSession
  /\ ~operationInFlight
  /\ ~stepCadLoopRunning

\* a gate that looks at the in-flight flag only
canGenerateStepCadNowFlagOnly ==
  /\ session # NoSession
  /\ session.approved_image_version # 0
  /\ ~operationInFlight

canGenerateStepCadNow ==
  /\ session # NoSession
  /\ session.approved_image_version # 0
  /\ ~operationInFlight
  /\ ~stepCadLoopRunning

\* state.session?.images || []
ImagesOf(s) == IF s = NoSession THEN << >> ELSE s.images

\* state.session?.approved_image_version
ApprovedOf(s) == IF s = NoSession THEN 0 ELSE s.approved_image_version

canRunEditNow ==
  /\ session # NoSession
  /\ session.images # << >>
  /\ ~session.lock_confirmed
  /\ ~operationInFlight

\* applyActionAvailability: the Approve button is enabled
canApproveCurrent ==
  /\ session # NoSession
  /\ session.images # << >>
  /\ ~operationInFlight

\* applyActionAvailability: the Generate 2D button is enabled
canGenerate2D ==
  /\ session # NoSession
  /\ session.step >= 3
  /\ session.images = << >>
  /\ ~operationInFlight

---------------------------------------------------------------------------
\* The backend: the session record, the cache and the CAD endpoints.

\* the image versions a session may hold
Versions == 1..MaxImages

\* the stages of the workflow
Collecting == 1
SpecComplete == 2
BaselineDecision == 3
ConceptIteration == 4
Approved == 5
CadReady == 6

SrvInitSession ==
  [step |-> Approved,
   lock_confirmed |-> FALSE,
   baseline_matches |-> FALSE,
   baseline_adopted |-> FALSE,
   images |-> << 1, 2 >>,
   approved_image_version |-> 1,
   cad_step_file |-> NoUrl,
   cad_model_code_path |-> NoUrl,
   cad_model_code |-> NoText,
   cad_model_last_error |-> NoText,
   cad_model_prompt |-> NoText]

NoEntry == [none |-> TRUE]

\* key = hash(approvedArtifactContentId, trim(prompt))
CacheKey(version, p) == << version, Trim(p) >>

\* a prompt the user wrote
CustomPrompt == << "c", "u", "s", "t", "o", "m" >>

Prompts == { DEFAULT_STEP_CAD_PROMPT, CustomPrompt }

CacheKeys == { CacheKey(v, p) : v \in Versions, p \in Prompts }

\* what a successful execution for `version` in run `r` exports
Artifact(version, r) ==
  [step_file |-> << "step", version, r >>,
   code_file |-> << "code", version, r >>,
   cad_code |-> << "o", "k" >>]

\* a store in which the last writer of a key wins
CacheStoreOverwrite(c, key, art) == [c EXCEPT ![key] = art]

\* first success for a key creates the entry; an entry is read-only afterwards
CacheStore(c, key, art) ==
  IF c[key] = NoEntry THEN [c EXCEPT ![key] = art] ELSE c

SuccessRes(art, isCached) ==
  [success |-> TRUE, step_file |-> art.step_file, code_file |-> art.code_file,
   cad_code |-> art.cad_code, error_detail |-> NoText, cached |-> isCached]

FailureRes(code, err) ==
  [success |-> FALSE, step_file |-> NoUrl, code_file |-> NoUrl,
   cad_code |-> code, error_detail |-> err, cached |-> FALSE]

\* what a failing execution may report: code and error text with blanks around
\* them and a second line, or neither code nor error text
DetailedFailure == FailureRes(<< " ", "c", "\n" >>, << "e", "\n", "x", " " >>)
BareFailure == FailureRes(NoText, NoText)

\* a success sets the CAD result of the session
SrvWithResult(s, art, p) ==
  [s EXCEPT !.step = CadReady,
            !.cad_step_file = art.step_file,
            !.cad_model_code_path = art.code_file,
            !.cad_model_code = art.cad_code,
            !.cad_model_last_error = NoText,
            !.cad_model_prompt = p]

\* a failed attempt leaves its code and error detail in the session record; the
\* CAD result of the session is dropped only by an approval or a new image
SrvWithFailure(s, res, p) ==
  [s EXCEPT !.cad_model_code = res.cad_code,
            !.cad_model_last_error = res.error_detail,
            !.cad_model_prompt = p]

\* failed attempts of the current run that reported neither code nor error text
BareFailures ==
  Cardinality({ k \in 1..MaxAttempts :
                  /\ cadAttemptStates[k].status = "failed"
                  /\ cadAttemptStates[k].fullError = CadExecutionFailed })

\* what an execution may yield on a cache miss
SrvExecutions(version, r) ==
  { SuccessRes(Artifact(version, r), FALSE), DetailedFailure }
    \cup (IF BareFailures < MaxBareFailures THEN { BareFailure } ELSE { })

\* POST /api/cad/model/generate and /api/cad/model/fix-code: the responses the
\* backend may give to `req`, each with the session record and cache it leaves
SrvCadOutcomes(req) ==
  LET version == srv.approved_image_version
      key == CacheKey(version, req.prompt)
      Ran(res) ==
        IF res.success
          THEN [res |-> res,
                srv |-> SrvWithResult(srv, Artifact(version, runs), Trim(req.prompt)),
                cache |-> CacheStore(cache, key, Artifact(version, runs))]
          ELSE [res |-> res,
                srv |-> SrvWithFailure(srv, res, Trim(req.prompt)),
                cache |-> cache]
  IN IF version = 0 THEN { }
     ELSE IF req.url = "/api/cad/model/generate" /\ cache[key] # NoEntry
       THEN { [res |-> SuccessRes(cache[key], TRUE),
               srv |-> SrvWithResult(srv, cache[key], Trim(req.prompt)),
               cache |-> cache] }
       ELSE { Ran(res) : res \in SrvExecutions(version, runs) }

\* POST /api/version/approve: approving another version drops the CAD result
SrvApprove(s, version) ==
  IF s.approved_image_version = version THEN s
  ELSE [s EXCEPT !.step = Approved,
                 !.approved_image_version = version,
                 !.cad_step_file = NoUrl,
                 !.cad_model_code_path = NoUrl,
                 !.cad_model_code = NoText,
                 !.cad_model_last_error = NoText]

\* the CAD fields of a session without a CAD result
SrvWithoutCad(s) ==
  [s EXCEPT !.cad_step_file = NoUrl,
            !.cad_model_code_path = NoUrl,
            !.cad_model_code = NoText,
            !.cad_model_last_error = NoText,
            !.cad_model_prompt = NoText]

\* POST /api/session/clear: every workflow field of the session goes back to
\* its first value
SrvClearedSession ==
  [step |-> Collecting,
   lock_confirmed |-> FALSE,
   baseline_matches |-> FALSE,
   baseline_adopted |-> FALSE,
   images |-> << >>,
   approved_image_version |-> 0,
   cad_step_file |-> NoUrl,
   cad_model_code_path |-> NoUrl,
   cad_model_code |-> NoText,
   cad_model_last_error |-> NoText,
   cad_model_prompt |-> NoText]

\* POST /api/chat with the last mandatory field: Collecting -> SpecComplete ->
\* BaselineDecision, the baseline search finding candidates or none
SrvChat(s, found) ==
  IF s.step = Collecting
    THEN [s EXCEPT !.step = BaselineDecision, !.baseline_matches = found]
    ELSE s

\* the stages that allow an operation of the backend
SrvAllows(op, s) ==
  CASE op = "skip" -> s.step = BaselineDecision
    [] op = "adopt" -> s.step >= BaselineDecision /\ s.baseline_matches
    [] op = "generate" -> s.step >= BaselineDecision
    [] op = "edit" -> s.step >= ConceptIteration /\ s.images # << >>
    [] op = "approve" -> s.step >= ConceptIteration /\ s.images # << >>
    [] op = "cad" -> s.step >= Approved /\ s.approved_image_version # 0

\* POST /api/baseline/skip
SrvSkipBaseline(s) == [s EXCEPT !.step = ConceptIteration]

\* append(session, artifact): the next version; a new image drops the approval
\* and the CAD work made from it
SrvAppendImage(s) ==
  [SrvWithoutCad(s) EXCEPT !.step = ConceptIteration,
                           !.lock_confirmed = FALSE,
                           !.images = Append(s.images, Len(s.images) + 1),
                           !.approved_image_version = 0]

\* an adoption that replaces the images and leaves the approval as it is
SrvAdoptBaselineApprovalKept(s) ==
  [s EXCEPT !.step = ConceptIteration,
            !.baseline_adopted = TRUE,
            !.images = << 1 >>]

\* POST /api/image/adopt-baseline: the candidate becomes the first version and
\* takes the place of the images there were
SrvAdoptBaseline(s) ==
  [SrvWithoutCad(s) EXCEPT !.step = ConceptIteration,
                           !.lock_confirmed = FALSE,
                           !.baseline_adopted = TRUE,
                           !.images = << 1 >>,
                           !.approved_image_version = 0]

---------------------------------------------------------------------------
\* generateStepCad: its requests and the pieces of its loop body.

NoResponse == [none |-> TRUE]

GenerateRequest(p) ==
  [url |-> "/api/cad/model/generate", prompt |-> p,
   cad_code |-> NoText, error_detail |-> NoText]

FixCodeRequest(code, err, p) ==
  [url |-> "/api/cad/model/fix-code", prompt |-> p,
   cad_code |-> code, error_detail |-> err]

\* the request of attempt `index`
AttemptRequest(index, code, err, p) ==
  IF index = 0 THEN GenerateRequest(p) ELSE FixCodeRequest(code, err, p)

Counted(count, req) ==
  IF req.url = "/api/cad/model/generate"
    THEN [count EXCEPT !.generate = @ + 1]
    ELSE [count EXCEPT !.fix = @ + 1]

\* res.success && res.step_file
IsSuccess(res) == res.success /\ res.step_file # NoUrl

\* the next code without the fallback to the code carried so far
NextCodeNoCarry(res, code) == Trim(res.cad_code)

\* currentCode = (res.cad_code || currentCode || "").trim()
NextCode(res, code) == Trim(OrElse(res.cad_code, code))

\* currentError = (res.error_detail || "CAD execution failed.").trim()
NextError(res) == Trim(OrElse(res.error_detail, CadExecutionFailed))

\* a loop condition that lets one more iteration through
LoopContinuesInclusive(index) == index <= MaxAttempts

\* the for loop's condition
LoopContinues(index) == index < MaxAttempts

\* a loop body without the check of the stop flag
CancelsAttemptNever(stopRequested) == FALSE

\* the check at the top of the loop body
CancelsAttempt(stopRequested) == stopRequested

\* a cancellation that marks the attempt that has just ended
CancelledIndexEnded(index) == index - 1

\* the attempt the cancellation marks: the one the loop was about to start
CancelledIndex(index) == index

\* the condition of the Unresolved report after the loop
ReportsUnresolved(succeeded, stopRequested) == ~succeeded /\ ~stopRequested

RunningPatch ==
  [status |-> "running", errorText |-> NoText, fullError |-> NoText, codeText |-> NoText]

SuccessPatch(res) ==
  [status |-> "success", errorText |-> SuccessText, fullError |-> NoText,
   codeText |-> res.cad_code]

FailedPatch(code, err) ==
  [status |-> "failed", errorText |-> errorSummary(err), fullError |-> err,
   codeText |-> code]

\* a finally block that leaves the loop flag as it is
FinallyLoopFlagKept ==
  /\ stepCadLoopRunning' = stepCadLoopRunning
  /\ operationInFlight' = FALSE
  /\ pc' = "idle"

\* the finally block
Finally ==
  /\ stepCadLoopRunning' = FALSE
  /\ operationInFlight' = FALSE
  /\ pc' = "idle"

FinallyEl(e) == [e EXCEPT !.stopStepCadBtnHidden = TRUE]

---------------------------------------------------------------------------
\* the DOM of the CAD panel as the page is loaded
LoadedEl ==
  [stopStepCadBtnHidden |-> TRUE,
   stepCadUnresolvedBannerHidden |-> TRUE,
   cadAttemptDetailsHidden |-> TRUE,
   cadErrorText |-> NoText,
   fixCadCodeTextarea |-> NoText,
   downloadStepBtn |-> HiddenBtn,
   downloadCadCodeBtn |-> HiddenBtn]

\* the client as init() leaves it at its first await
PageLoaded ==
  /\ session = NoSession
  /\ operationInFlight = FALSE
  /\ stepCadLoopRunning = FALSE
  /\ stepCadLoopStopRequested = FALSE
  /\ cadAttemptStates = [k \in 1..MaxAttempts |-> InactiveAttempt]
  /\ currentStepCadPrompt = getSavedStepCadPrompt(storedStepPrompt)
  /\ el = LoadedEl
  /\ messages = { }
  /\ pc = "idle"
  /\ i = 0
  /\ currentCode = NoText
  /\ currentError = NoText
  /\ success = FALSE
  /\ prompt = NoText
  /\ outstanding = { }
  /\ lastRes = NoResponse
  /\ requestCount = [generate |-> 0, fix |-> 0]
  /\ stopAt = -1
  /\ briefUploading = FALSE
  /\ pending = { }
  /\ notice = ""
  /\ baselineLoadingInProgress = FALSE
  /\ baselineRefreshes = { }
  /\ now = 0

\* a session with an approved version, shown on the approval screen
Init ==
  /\ srv = SrvInitSession
  /\ cache = [key \in CacheKeys |-> NoEntry]
  /\ storedStepPrompt = NoText
  /\ runs = 0
  /\ activeScreen = 3
  /\ PageLoaded

\* a new session
InitFlow ==
  /\ srv = SrvClearedSession
  /\ cache = [key \in CacheKeys |-> NoEntry]
  /\ storedStepPrompt = NoText
  /\ runs = 0
  /\ activeScreen = 1
  /\ PageLoaded

---------------------------------------------------------------------------
\* generateStepCad.

\* a click that generateStepCad turns down: a message, and nothing else of
\* the state changes
GenerateStepCadRejected ==
  /\ ~canGenerateStepCadNow \/ Trim(currentStepCadPrompt) = NoText
  /\ UNCHANGED baselineVars
  /\ notice' = IF ApprovedOf(session) = 0
                 THEN "Approve a version first before generating STEP CAD."
                 ELSE IF operationInFlight
                   THEN "Another operation is running. Please wait."
                   ELSE IF stepCadLoopRunning
                     THEN "STEP CAD generation is not available yet."
                     ELSE "CAD Query prompt cannot be empty."
  /\ UNCHANGED << session, srv, cache, operationInFlight, stepCadLoopRunning,
                  stepCadLoopStopRequested, cadAttemptStates, currentStepCadPrompt,
                  storedStepPrompt, el, messages, pc, i, currentCode, currentError,
                  success, prompt, outstanding, lastRes, requestCount, stopAt,
                  briefUploading, runs, activeScreen, pending >>

\* generateStepCad from the click to the await of attempt 0's request
GenerateStepCad ==
  /\ runs < MaxRuns
  /\ canGenerateStepCadNow
  /\ Trim(currentStepCadPrompt) # NoText
  /\ LET p == Trim(currentStepCadPrompt)
         req == AttemptRequest(0, NoText, NoText, p)
     IN /\ prompt' = p
        /\ outstanding' = outstanding \cup { [run |-> runs + 1, attempt |-> 0, req |-> req] }
        /\ requestCount' = Counted([generate |-> 0, fix |-> 0], req)
  /\ currentCode' = NoText
  /\ currentError' = NoText
  /\ success' = FALSE
  /\ stepCadLoopStopRequested' = FALSE
  /\ stepCadLoopRunning' = TRUE
  /\ operationInFlight' = TRUE
  /\ cadAttemptStates' = updateAttemptStatus(resetCadAttemptsUi, 0, RunningPatch)
  /\ el' = [el EXCEPT !.stopStepCadBtnHidden = FALSE,
                      !.stepCadUnresolvedBannerHidden = TRUE,
                      !.downloadStepBtn = HiddenBtn]
  /\ messages' = { "Starting STEP CAD auto-fix attempts (max 10)." }
  /\ i' = 0
  /\ pc' = "await_cad"
  /\ lastRes' = NoResponse
  /\ stopAt' = -1
  /\ runs' = runs + 1
  /\ UNCHANGED << session, srv, cache, currentStepCadPrompt, storedStepPrompt,
                  briefUploading, flowVars >>

\* a success branch without its break: the loop goes on to the next iteration
AttemptSucceededNoBreak(res, rest) ==
  LET marked == updateAttemptStatus(cadAttemptStates, i, SuccessPatch(res))
      next == i + 1
      req == AttemptRequest(next, currentCode, currentError, prompt)
  IN /\ success' = TRUE
     /\ messages' = messages \cup
          { IF res.cached THEN "CAD generated. (cache hit)" ELSE "CAD generated." }
     /\ el' = hideCadExecutionIssue(
                renderStepViewer(
                  [el EXCEPT !.downloadCadCodeBtn = ShownBtn(res.code_file),
                             !.downloadStepBtn = ShownBtn(res.step_file)],
                  res.step_file))
     /\ i' = next
     /\ UNCHANGED << currentCode, currentError >>
     /\ IF LoopContinues(next) /\ ~CancelsAttempt(stepCadLoopStopRequested)
          THEN /\ cadAttemptStates' = updateAttemptStatus(marked, next, RunningPatch)
               /\ outstanding' =
                    rest \cup { [run |-> runs, attempt |-> next, req |-> req] }
               /\ requestCount' = Counted(requestCount, req)
               /\ pc' = "await_cad"
          ELSE /\ cadAttemptStates' = marked
               /\ outstanding' = rest
               /\ pc' = "await_refresh"
               /\ UNCHANGED requestCount

\* the loop after attempt i succeeded: lines up to the await of refreshSession
AttemptSucceeded(res, rest) ==
  /\ success' = TRUE
  /\ outstanding' = rest
  /\ cadAttemptStates' = updateAttemptStatus(cadAttemptStates, i, SuccessPatch(res))
  /\ messages' = messages \cup
       { IF res.cached THEN "CAD generated. (cache hit)" ELSE "CAD generated." }
  /\ el' = hideCadExecutionIssue(
             renderStepViewer(
               [el EXCEPT !.downloadCadCodeBtn = ShownBtn(res.code_file),
                          !.downloadStepBtn = ShownBtn(res.step_file)],
               res.step_file))
  /\ pc' = "await_refresh"
  /\ UNCHANGED << i, currentCode, currentError, requestCount >>

\* the loop after attempt i failed: the failure is recorded, then the next
\* iteration runs up to its await, or the loop ends and refreshSession is awaited
AttemptFailed(res, rest) ==
  LET code == NextCode(res, currentCode)
      err == NextError(res)
      failed == updateAttemptStatus(cadAttemptStates, i, FailedPatch(code, err))
      shown == renderCadExecutionIssue(el, err, code)
      next == i + 1
  IN /\ currentCode' = code
     /\ currentError' = err
     /\ i' = next
     /\ UNCHANGED success
     /\ IF LoopContinues(next)
          THEN IF CancelsAttempt(stepCadLoopStopRequested)
            THEN /\ cadAttemptStates' =
                      updateAttemptStatus(failed, CancelledIndex(next), [status |-> "cancelled"])
                 /\ messages' = messages \cup { "STEP CAD attempt loop cancelled." }
                 /\ el' = shown
                 /\ pc' = "await_refresh"
                 /\ outstanding' = rest
                 /\ UNCHANGED requestCount
            ELSE LET req == AttemptRequest(next, code, err, prompt) IN
                 /\ cadAttemptStates' = updateAttemptStatus(failed, next, RunningPatch)
                 /\ outstanding' =
                      rest \cup { [run |-> runs, attempt |-> next, req |-> req] }
                 /\ requestCount' = Counted(requestCount, req)
                 /\ el' = shown
                 /\ pc' = "await_cad"
                 /\ UNCHANGED messages
          ELSE /\ cadAttemptStates' = failed
               /\ pc' = "await_refresh"
               /\ outstanding' = rest
               /\ UNCHANGED requestCount
               /\ IF ReportsUnresolved(success, stepCadLoopStopRequested)
                    THEN /\ el' = [shown EXCEPT !.stepCadUnresolvedBannerHidden = FALSE,
                                                !.downloadStepBtn = HiddenBtn]
                         /\ messages' = messages \cup { "Unresolved after 10 attempts." }
                    ELSE /\ el' = shown
                         /\ UNCHANGED messages

\* the backend answers request r with `out` and the loop takes the answer
CadAnswered(r, out) ==
  /\ srv' = out.srv
  /\ cache' = out.cache
  /\ lastRes' = out.res
  /\ IF IsSuccess(out.res)
       THEN AttemptSucceeded(out.res, outstanding \ { r })
       ELSE AttemptFailed(out.res, outstanding \ { r })

\* the response of the awaited CAD request arrives
CadResponse ==
  /\ pc = "await_cad"
  /\ \E r \in outstanding :
       \E out \in SrvCadOutcomes(r.req) : CadAnswered(r, out)
  /\ UNCHANGED << session, operationInFlight, stepCadLoopRunning,
                  stepCadLoopStopRequested, currentStepCadPrompt, storedStepPrompt,
                  prompt, stopAt, briefUploading, runs, flowVars >>

\* apiPost throws (no response, or a response that is not OK): the finally
\* block runs and the click handler reports the error
CadRequestThrows ==
  /\ pc = "await_cad"
  /\ \E r \in outstanding : outstanding' = outstanding \ { r }
  /\ Finally
  /\ el' = FinallyEl(el)
  /\ messages' = messages \cup { "Request failed" }
  /\ UNCHANGED << session, srv, cache, stepCadLoopStopRequested, cadAttemptStates,
                  currentStepCadPrompt, storedStepPrompt, i, currentCode,
                  currentError, success, prompt, lastRes, requestCount, stopAt,
                  briefUploading, runs, flowVars >>

\* the refreshSession that ends the run returns: updateFromSession, then finally
RunRefreshed ==
  /\ pc = "await_refresh"
  /\ session' = srv
  /\ activeScreen' = updateFromSessionScreen(activeScreen, srv)
  /\ el' = FinallyEl(updateFromSessionEl(el, srv))
  /\ currentStepCadPrompt' = updateFromSessionPrompt(srv)
  /\ Finally
  /\ UNCHANGED << srv, cache, stepCadLoopStopRequested, cadAttemptStates,
                  storedStepPrompt, messages, i, currentCode, currentError, success,
                  prompt, outstanding, lastRes, requestCount, stopAt,
                  briefUploading, runs, pending, notice, baselineVars >>

\* the refreshSession that ends the run throws
RunRefreshThrows ==
  /\ pc = "await_refresh"
  /\ Finally
  /\ el' = FinallyEl(el)
  /\ messages' = messages \cup { "Request failed" }
  /\ UNCHANGED << session, srv, cache, stepCadLoopStopRequested, cadAttemptStates,
                  currentStepCadPrompt, storedStepPrompt, i, currentCode,
                  currentError, success, prompt, outstanding, lastRes, requestCount,
                  stopAt, briefUploading, runs, flowVars >>

\* the Stop button's click handler
StopStepCad ==
  /\ stepCadLoopRunning
  /\ stepCadLoopStopRequested' = TRUE
  /\ stopAt' = IF stepCadLoopStopRequested THEN stopAt ELSE i
  /\ messages' = messages \cup { "Stopping after current attempt..." }
  /\ UNCHANGED << session, srv, cache, operationInFlight, stepCadLoopRunning,
                  cadAttemptStates, currentStepCadPrompt, storedStepPrompt, el, pc,
                  i, currentCode, currentError, success, prompt, outstanding,
                  lastRes, requestCount, briefUploading, runs, flowVars >>

---------------------------------------------------------------------------
\* The other handlers that share the session and the in-flight flag.

\* a refreshSession of init or indexAssetMetadata returns
SessionRefreshed ==
  /\ session' = srv
  /\ activeScreen' = updateFromSessionScreen(activeScreen, srv)
  /\ el' = updateFromSessionEl(el, srv)
  /\ currentStepCadPrompt' = updateFromSessionPrompt(srv)
  /\ UNCHANGED << srv, cache, operationInFlight, stepCadLoopRunning,
                  stepCadLoopStopRequested, cadAttemptStates, storedStepPrompt,
                  messages, pc, i, currentCode, currentError, success, prompt,
                  outstanding, lastRes, requestCount, stopAt, briefUploading, runs, pending, notice, baselineVars >>

\* uploadMarketingBrief up to the await of its request
UploadMarketingBrief ==
  /\ ~briefUploading
  /\ briefUploading' = TRUE
  /\ operationInFlight' = TRUE
  /\ UNCHANGED << session, srv, cache, stepCadLoopRunning, stepCadLoopStopRequested,
                  cadAttemptStates, currentStepCadPrompt, storedStepPrompt, el,
                  messages, pc, i, currentCode, currentError, success, prompt,
                  outstanding, lastRes, requestCount, stopAt, runs, flowVars >>

\* uploadMarketingBrief: its request and its refreshSession returned, then finally
UploadMarketingBriefDone ==
  /\ briefUploading
  /\ briefUploading' = FALSE
  /\ session' = srv
  /\ activeScreen' = updateFromSessionScreen(activeScreen, srv)
  /\ el' = updateFromSessionEl(el, srv)
  /\ currentStepCadPrompt' = updateFromSessionPrompt(srv)
  /\ operationInFlight' = FALSE
  /\ UNCHANGED << srv, cache, stepCadLoopRunning, stepCadLoopStopRequested,
                  cadAttemptStates, storedStepPrompt, messages, pc, i, currentCode,
                  currentError, success, prompt, outstanding, lastRes, requestCount,
                  stopAt, runs, pending, notice, baselineVars >>

\* uploadMarketingBrief: its request throws, then finally
UploadMarketingBriefThrows ==
  /\ briefUploading
  /\ briefUploading' = FALSE
  /\ operationInFlight' = FALSE
  /\ UNCHANGED << session, srv, cache, stepCadLoopRunning, stepCadLoopStopRequested,
                  cadAttemptStates, currentStepCadPrompt, storedStepPrompt, el,
                  messages, pc, i, currentCode, currentError, success, prompt,
                  outstanding, lastRes, requestCount, stopAt, runs, flowVars >>

\* approveVersion(img): its request and its refreshSession returned.  Between
\* the click and the first response nothing of the state changes; the two
\* responses are taken as one step.
ApproveVersion(version) ==
  /\ session # NoSession
  /\ \E k \in DOMAIN session.images : session.images[k] = version
  /\ SrvAllows("approve", srv)
  /\ \E k \in DOMAIN srv.images : srv.images[k] = version
  /\ srv' = SrvApprove(srv, version)
  /\ session' = srv'
  /\ activeScreen' = 3
  /\ el' = updateFromSessionEl(el, srv')
  /\ currentStepCadPrompt' = updateFromSessionPrompt(srv')
  /\ UNCHANGED << cache, operationInFlight, stepCadLoopRunning,
                  stepCadLoopStopRequested, cadAttemptStates, storedStepPrompt,
                  messages, pc, i, currentCode, currentError, success, prompt,
                  outstanding, lastRes, requestCount, stopAt, briefUploading, runs,
                  pending, notice, baselineVars >>

\* clearServerCache: POST /api/cache/clear returned
ClearServerCache ==
  /\ cache' = [key \in CacheKeys |-> NoEntry]
  /\ UNCHANGED << session, srv, operationInFlight, stepCadLoopRunning,
                  stepCadLoopStopRequested, cadAttemptStates, currentStepCadPrompt,
                  storedStepPrompt, el, messages, pc, i, currentCode, currentError,
                  success, prompt, outstanding, lastRes, requestCount, stopAt,
                  briefUploading, runs, flowVars >>

---------------------------------------------------------------------------
\* The handlers of the workflow around the CAD loop.

\* what the image handlers leave alone
loopVars == << stepCadLoopRunning, stepCadLoopStopRequested, cadAttemptStates,
               storedStepPrompt, messages, pc, i, currentCode, currentError,
               success, prompt, outstanding, lastRes, requestCount, stopAt, runs >>

\* updateFromSession(s) but for the active screen
Refreshed(s) ==
  /\ session' = s
  /\ el' = updateFromSessionEl(el, s)
  /\ currentStepCadPrompt' = updateFromSessionPrompt(s)

\* a request of generate2D or runManualEdit
ImageRequest(op) == [op |-> op, at |-> "request", req |-> NoResponse]

\* the refreshSession of init returns
InitRefreshed ==
  /\ session = NoSession
  /\ SessionRefreshed

\* sendChat with the message that completes the specification
SendChat ==
  /\ srv.step = Collecting
  /\ \E found \in BOOLEAN : srv' = SrvChat(srv, found)
  /\ Refreshed(srv')
  /\ activeScreen' = updateFromSessionScreen(activeScreen, srv')
  /\ UNCHANGED << cache, operationInFlight, briefUploading, pending, notice, baselineVars,
                  loopVars >>

\* the click handler of baselineSkipBtn, the button being shown
BaselineSkip ==
  /\ session # NoSession
  /\ session.step >= 3 /\ session.images = << >>
  /\ SrvAllows("skip", srv)
  /\ srv' = SrvSkipBaseline(srv)
  /\ Refreshed(srv')
  /\ activeScreen' = 2
  /\ UNCHANGED << cache, operationInFlight, briefUploading, pending, notice, baselineVars,
                  loopVars >>

\* the same click when the backend turns the request down: the catch reports
BaselineSkipRefused ==
  /\ session # NoSession
  /\ session.step >= 3 /\ session.images = << >>
  /\ ~SrvAllows("skip", srv)
  /\ UNCHANGED baselineVars
  /\ notice' = "Request failed"
  /\ UNCHANGED << session, srv, cache, operationInFlight, currentStepCadPrompt, el,
                  briefUploading, activeScreen, pending, loopVars >>

\* window.location.reload(): the script starts again, init() up to its first await
Reloaded ==
  /\ session' = NoSession
  /\ operationInFlight' = FALSE
  /\ stepCadLoopRunning' = FALSE
  /\ stepCadLoopStopRequested' = FALSE
  /\ cadAttemptStates' = [k \in 1..MaxAttempts |-> InactiveAttempt]
  /\ currentStepCadPrompt' = getSavedStepCadPrompt(storedStepPrompt)
  /\ el' = LoadedEl
  /\ messages' = { }
  /\ pc' = "idle"
  /\ i' = 0
  /\ currentCode' = NoText
  /\ currentError' = NoText
  /\ success' = FALSE
  /\ prompt' = NoText
  /\ outstanding' = { }
  /\ lastRes' = NoResponse
  /\ requestCount' = [generate |-> 0, fix |-> 0]
  /\ stopAt' = -1
  /\ briefUploading' = FALSE
  /\ pending' = { }
  /\ notice' = ""
  /\ baselineLoadingInProgress' = FALSE
  /\ baselineRefreshes' = { }
  /\ now' = 0
  /\ UNCHANGED << cache, storedStepPrompt, runs >>

\* adoptBaselineCandidate(match) from a Select button or continueBaselineBtn
AdoptBaseline ==
  /\ session # NoSession
  /\ session.baseline_matches /\ ~session.baseline_adopted
  /\ SrvAllows("adopt", srv)
  /\ srv' = SrvAdoptBaseline(srv)
  /\ activeScreen' = 2
  /\ Reloaded

\* a local update that sets the stage of the baseline decision
generate2DLocalStage3(s, version) ==
  [s EXCEPT !.images = Append(s.images, version),
            !.step = 3,
            !.lock_confirmed = FALSE,
            !.approved_image_version = 0]

\* a local update that appends the image and leaves the stage as it is
generate2DLocalStageKept(s, version) ==
  [s EXCEPT !.images = Append(s.images, version),
            !.lock_confirmed = FALSE,
            !.approved_image_version = 0]

\* the local update of generate2D
generate2DLocal(s, version) ==
  [s EXCEPT !.images = Append(s.images, version),
            !.step = 4,
            !.lock_confirmed = FALSE,
            !.approved_image_version = 0]

\* generate2D from the click to the await of its request
Generate2D ==
  /\ canGenerate2D
  /\ Len(srv.images) < MaxImages
  /\ operationInFlight' = TRUE
  /\ pending' = pending \cup { ImageRequest("generate") }
  /\ UNCHANGED << session, srv, cache, currentStepCadPrompt, el, briefUploading,
                  activeScreen, notice, baselineVars, loopVars >>

\* generate2D: the image was generated; the local update, then the await of
\* refreshSession
Generate2DResponse ==
  /\ ImageRequest("generate") \in pending
  /\ SrvAllows("generate", srv)
  /\ Len(srv.images) < MaxImages
  /\ srv' = SrvAppendImage(srv)
  /\ pending' = (pending \ { ImageRequest("generate") })
                  \cup { [ImageRequest("generate") EXCEPT !.at = "refresh"] }
  /\ IF session # NoSession
       THEN LET local == generate2DLocal(session, Len(srv'.images))
            IN /\ Refreshed(local)
               /\ activeScreen' = updateFromSessionScreen(activeScreen, local)
       ELSE UNCHANGED << session, el, currentStepCadPrompt, activeScreen >>
  /\ UNCHANGED << cache, operationInFlight, briefUploading, notice, baselineVars,
                  loopVars >>

\* generate2D: its request throws, then finally
Generate2DThrows ==
  /\ ImageRequest("generate") \in pending
  /\ pending' = pending \ { ImageRequest("generate") }
  /\ operationInFlight' = FALSE
  /\ UNCHANGED << session, srv, cache, currentStepCadPrompt, el, briefUploading,
                  activeScreen, notice, baselineVars, loopVars >>

\* generate2D: refreshSession returned or threw (the catch warns), then finally;
\* the timer it sets is taken with it: the page loads again
Generate2DDone ==
  /\ [ImageRequest("generate") EXCEPT !.at = "refresh"] \in pending
  /\ Reloaded
  /\ UNCHANGED << srv, activeScreen >>

\* a click that runManualEdit turns down
RunManualEditRejected ==
  /\ \E instruction \in { NoText, << "x" >> } :
       /\ ~canRunEditNow \/ Trim(instruction) = NoText
       /\ UNCHANGED baselineVars
       /\ notice' = IF ~canRunEditNow
                      THEN "Run Edit is currently unavailable."
                      ELSE "Type a manual edit instruction first."
  /\ UNCHANGED << session, srv, cache, operationInFlight, currentStepCadPrompt, el,
                  briefUploading, activeScreen, pending, loopVars >>

\* runManualEdit from the click to the await of its request
RunManualEdit ==
  /\ canRunEditNow
  /\ Len(srv.images) < MaxImages
  /\ operationInFlight' = TRUE
  /\ pending' = pending \cup { ImageRequest("edit") }
  /\ UNCHANGED << session, srv, cache, currentStepCadPrompt, el, briefUploading,
                  activeScreen, notice, baselineVars, loopVars >>

\* runManualEdit: the edited image was appended; refreshSession is awaited
ManualEditResponse ==
  /\ ImageRequest("edit") \in pending
  /\ SrvAllows("edit", srv)
  /\ Len(srv.images) < MaxImages
  /\ srv' = SrvAppendImage(srv)
  /\ pending' = (pending \ { ImageRequest("edit") })
                  \cup { [ImageRequest("edit") EXCEPT !.at = "refresh"] }
  /\ UNCHANGED << session, cache, operationInFlight, currentStepCadPrompt, el,
                  briefUploading, activeScreen, notice, baselineVars, loopVars >>

\* runManualEdit: refreshSession returned, then finally; the timer it sets is
\* taken with it: the page loads again
ManualEditDone ==
  /\ [ImageRequest("edit") EXCEPT !.at = "refresh"] \in pending
  /\ Reloaded
  /\ UNCHANGED << srv, activeScreen >>

\* runManualEdit: its request or its refreshSession throws, then finally
ManualEditThrows ==
  /\ \E q \in pending :
       /\ q.op = "edit"
       /\ pending' = pending \ { q }
  /\ operationInFlight' = FALSE
  /\ UNCHANGED << session, srv, cache, currentStepCadPrompt, el, briefUploading,
                  activeScreen, notice, baselineVars, loopVars >>

\* approveCurrentForCad with an image: approveVersion(latest)
ApproveCurrentForCad ==
  /\ canApproveCurrent
  /\ ApproveVersion(session.images[Len(session.images)])

\* a rejection that switches to the approval screen as approveVersion does
ApproveCurrentForCadRejectedOnScreen3 ==
  /\ ImagesOf(session) = << >>
  /\ UNCHANGED baselineVars
  /\ notice' = "No image available to approve."
  /\ activeScreen' = 3
  /\ UNCHANGED << session, srv, cache, operationInFlight, currentStepCadPrompt, el,
                  briefUploading, pending, loopVars >>

\* approveCurrentForCad without an image: a message, and it returns (the
\* handler is taken as it is written, whether or not its button is enabled)
ApproveCurrentForCadRejected ==
  /\ ImagesOf(session) = << >>
  /\ UNCHANGED baselineVars
  /\ notice' = "No image available to approve."
  /\ UNCHANGED << session, srv, cache, operationInFlight, currentStepCadPrompt, el,
                  briefUploading, activeScreen, pending, loopVars >>

\* clearSessionState: its request and its refreshSession returned
ClearSessionState ==
  /\ srv' = SrvClearedSession
  /\ Refreshed(srv')
  /\ activeScreen' = 1
  /\ messages' = { }
  /\ UNCHANGED baselineVars
  /\ notice' = ""
  /\ UNCHANGED << cache, operationInFlight, stepCadLoopRunning,
                  stepCadLoopStopRequested, cadAttemptStates, storedStepPrompt, pc,
                  i, currentCode, currentError, success, prompt, outstanding,
                  lastRes, requestCount, stopAt, briefUploading, runs, pending >>

\* generateStepCad in the workflow, the runs being bounded
GenerateStepCadFlow ==
  /\ runs < MaxFlowRuns
  /\ GenerateStepCad

\* the response of the awaited CAD request arrives, the failures of one run
\* being bounded
CadResponseFlow ==
  /\ pc = "await_cad"
  /\ \E r \in outstanding :
       \E out \in SrvCadOutcomes(r.req) :
         /\ IsSuccess(out.res) \/ i + 1 < MaxFlowAttempts
         /\ CadAnswered(r, out)
  /\ UNCHANGED << session, operationInFlight, stepCadLoopRunning,
                  stepCadLoopStopRequested, currentStepCadPrompt, storedStepPrompt,
                  prompt, stopAt, briefUploading, runs, flowVars >>

---------------------------------------------------------------------------
Next ==
  \/ GenerateStepCad
  \/ CadResponse
  \/ CadRequestThrows
  \/ RunRefreshed
  \/ RunRefreshThrows
  \/ StopStepCad
  \/ SessionRefreshed
  \/ UploadMarketingBrief
  \/ UploadMarketingBriefDone
  \/ UploadMarketingBriefThrows

\* The CAD loop with Stop, failing requests and the brief upload that shares
\* the in-flight flag.
Spec == Init /\ [][Next]_vars

\* The same program where every awaited request of a run eventually returns or
\* fails.
SpecLive ==
  /\ Init
  /\ [][Next]_vars
  /\ WF_vars(CadRequestThrows \/ CadResponse)
  /\ WF_vars(RunRefreshThrows \/ RunRefreshed)

\* The CAD loop run again and again while versions are approved and the cache
\* is cleared.
NextRerun ==
  \/ GenerateStepCad
  \/ CadResponse
  \/ CadRequestThrows
  \/ RunRefreshed
  \/ RunRefreshThrows
  \/ StopStepCad
  \/ SessionRefreshed
  \/ \E version \in Versions : ApproveVersion(version)
  \/ ClearServerCache

SpecRerun == Init /\ [][NextRerun]_vars

\* The workflow of a new session: chat, baseline, images, approval, CAD, clear.
NextFlow ==
  \/ InitRefreshed
  \/ SendChat
  \/ BaselineSkip
  \/ BaselineSkipRefused
  \/ AdoptBaseline
  \/ Generate2D
  \/ Generate2DResponse
  \/ Generate2DThrows
  \/ Generate2DDone
  \/ RunManualEditRejected
  \/ RunManualEdit
  \/ ManualEditResponse
  \/ ManualEditDone
  \/ ManualEditThrows
  \/ \E version \in Versions : ApproveVersion(version)
  \/ ApproveCurrentForCad
  \/ ApproveCurrentForCadRejected
  \/ ClearSessionState
  \/ ClearServerCache
  \/ GenerateStepCadRejected
  \/ GenerateStepCadFlow
  \/ CadResponseFlow
  \/ CadRequestThrows
  \/ RunRefreshed

SpecFlow == InitFlow /\ [][NextFlow]_vars

TypeOK ==
  /\ pc \in { "idle", "await_cad", "await_refresh" }
  /\ i \in 0..MaxAttempts
  /\ Len(cadAttemptStates) = MaxAttempts
  /\ srv.step \in Collecting..CadReady
  /\ Len(srv.images) <= MaxImages
  /\ activeScreen \in 1..5
  /\ Cardinality(pending) <= 2

---------------------------------------------------------------------------
\* Properties of the CAD attempt loop.

Attempts == 0..(MaxAttempts - 1)

\* a step in which the handler of the awaited CAD response runs
ResponseHandled ==
  /\ pc = "await_cad"
  /\ runs' = runs
  /\ cadAttemptStates' # cadAttemptStates

\* C1: the attempt history never holds more than 10 attempts that are not
\* inactive, and one run issues at most 10 requests: one generate request and
\* at most nine fix-code requests.
C1_AtMostTenAttempts ==
  /\ Cardinality({ k \in 1..Len(cadAttemptStates) :
                     cadAttemptStates[k].status # "inactive" }) <= MaxAttempts
  /\ requestCount.generate <= 1
  /\ requestCount.fix <= MaxAttempts - 1
  /\ requestCount.generate + requestCount.fix <= MaxAttempts

\* all ten attempts were used and nine fix-code requests were issued
C1_TenAttemptsUsed ==
  /\ requestCount.fix = MaxAttempts - 1
  /\ \A k \in Attempts : StatusOf(k) # "inactive"

\* C2: once Stop was requested while attempt stopAt was the current one, no
\* later attempt is ever marked running (or failed or success), no request of a
\* later attempt is outstanding, and when attempt stopAt has failed the attempt
\* after it is marked cancelled and the loop awaits no further CAD response.
C2_NoAttemptStartsAfterStop ==
  stepCadLoopStopRequested =>
    /\ \A k \in Attempts : k > stopAt => StatusOf(k) \in { "inactive", "cancelled" }
    /\ \A r \in outstanding : r.attempt <= stopAt
    /\ (stopAt + 1 < MaxAttempts /\ StatusOf(stopAt) = "failed") =>
         (StatusOf(stopAt + 1) = "cancelled" /\ pc # "await_cad")

\* the loop found the stop flag set before an attempt and cancelled it
C2_CancelledBeforeStart ==
  /\ stepCadLoopStopRequested
  /\ stopAt + 1 < MaxAttempts
  /\ StatusOf(stopAt + 1) = "cancelled"
  /\ pc = "await_refresh"

\* C3: a response that arrives after Stop was requested settles the attempt in
\* flight as success or failed according to the response; that attempt is never
\* marked cancelled, and the only attempt ever marked cancelled is the one after
\* the attempt that was in flight when Stop was requested.
C3_StopNeverAbortsInFlight ==
  /\ [][ (ResponseHandled /\ stepCadLoopStopRequested) =>
           /\ cadAttemptStates'[i + 1].status =
                (IF IsSuccess(lastRes') THEN "success" ELSE "failed")
           /\ \A k \in Attempts :
                cadAttemptStates'[k + 1].status = "cancelled" => k = i + 1 ]_vars
  /\ [](\A k \in Attempts :
          StatusOf(k) = "cancelled" => (stepCadLoopStopRequested /\ k = stopAt + 1))

\* Stop was requested while the last attempt was in flight, and it failed
C3_StoppedAttemptFailed ==
  /\ stepCadLoopStopRequested
  /\ stopAt \in Attempts
  /\ StatusOf(stopAt) = "failed"
  /\ pc = "await_refresh"

\* C4 as stated: attempt 0 posts the generate request with the prompt, and the
\* fix-code request of a later attempt carries exactly the code and the error
\* detail of the response to the attempt before it.
C4_CarriesResponseVerbatim ==
  \A r \in outstanding :
    /\ r.attempt = 0 => r.req = GenerateRequest(prompt)
    /\ r.attempt > 0 =>
         /\ r.req.url = "/api/cad/model/fix-code"
         /\ r.req.cad_code = lastRes.cad_code
         /\ r.req.error_detail = lastRes.error_detail

\* C4: attempt 0 posts the generate request with the trimmed prompt; the
\* fix-code request of attempt k > 0 carries what attempt k-1 recorded: as code
\* the trimmed code of the response, or the code carried from the attempts
\* before when the response has none, and as error detail the trimmed error
\* detail of the response, or "CAD execution failed." when it has none.
C4_CarriesRecordedCodeAndError ==
  \A r \in outstanding :
    /\ r.attempt = 0 =>
         r.req = [url |-> "/api/cad/model/generate",
                  prompt |-> prompt,
                  cad_code |-> NoText, error_detail |-> NoText]
    /\ r.attempt > 0 =>
         LET before == cadAttemptStates[r.attempt]
             carried == IF r.attempt > 1
                          THEN cadAttemptStates[r.attempt - 1].codeText
                          ELSE NoText
         IN /\ r.req.url = "/api/cad/model/fix-code"
            /\ r.req.prompt = prompt
            /\ r.req.cad_code = before.codeText
            /\ r.req.error_detail = before.fullError
            /\ before.codeText = Trim(OrElse(lastRes.cad_code, carried))
            /\ before.fullError = Trim(OrElse(lastRes.error_detail, CadExecutionFailed))

\* a fix-code request that follows a response without code and without error
\* detail, and carries the code of an earlier attempt
C4_FallbackCarried ==
  \E r \in outstanding :
    /\ r.attempt > 1
    /\ lastRes.cad_code = NoText
    /\ lastRes.error_detail = NoText
    /\ r.req.cad_code # NoText

\* C5: the handler of a successful response marks the current attempt success,
\* sets the STEP and code downloads to the files of the response, and leaves the
\* loop with no request outstanding; no request is issued in that run afterwards.
C5_SuccessEndsTheRun ==
  /\ [][ (ResponseHandled /\ IsSuccess(lastRes')) =>
           /\ cadAttemptStates'[i + 1].status = "success"
           /\ el'.downloadStepBtn = ShownBtn(lastRes'.step_file)
           /\ el'.downloadCadCodeBtn = ShownBtn(lastRes'.code_file)
           /\ pc' = "await_refresh"
           /\ outstanding' = { } ]_vars
  /\ [][ (success /\ runs' = runs) =>
           (requestCount' = requestCount /\ outstanding' = outstanding) ]_vars

\* a fix-code attempt succeeded and the run is about to end
C5_SucceededAfterFailure ==
  /\ success
  /\ i > 0
  /\ StatusOf(i) = "success"
  /\ ~el.downloadStepBtn.hidden
  /\ pc = "await_refresh"

\* C6 as stated: once all ten attempts of a run have failed, the Unresolved
\* banner is shown and the message "Unresolved after 10 attempts." was added,
\* whenever Stop was requested.
C6_TenFailuresReportUnresolved ==
  (pc # "await_cad" /\ \A k \in Attempts : StatusOf(k) = "failed") =>
    /\ ~el.stepCadUnresolvedBannerHidden
    /\ "Unresolved after 10 attempts." \in messages

\* the last failed attempt of the attempt history
LastFailed ==
  CHOOSE k \in Attempts :
    /\ StatusOf(k) = "failed"
    /\ \A j \in Attempts : j > k => StatusOf(j) # "failed"

\* C7 as stated: after a run has ended without success, the error / code panel
\* is shown and holds the error text and the code that the last failed attempt
\* recorded, whatever session refreshes have happened since.
C7_LastFailureStaysVisible ==
  (pc = "idle" /\ runs > 0 /\ ~success /\ \E k \in Attempts : StatusOf(k) = "failed") =>
    /\ ~el.cadAttemptDetailsHidden
    /\ el.cadErrorText = cadAttemptStates[LastFailed + 1].fullError
    /\ Trim(el.fixCadCodeTextarea) = cadAttemptStates[LastFailed + 1].codeText

EmptyCache == [key \in CacheKeys |-> NoEntry]

C10_OneAttemptAtATime ==
  /\ [](/\ Cardinality({ k \in Attempts : StatusOf(k) = "running" }) <= 1
        /\ Cardinality(outstanding) <= 1
        /\ (pc # "idle" => stepCadLoopRunning))
  /\ [][ runs' # runs =>
           (pc = "idle" /\ ~stepCadLoopRunning /\ outstanding = { }) ]_vars

\* the loop is running while the shared in-flight flag has been cleared by
\* another handler: only the loop's own flag keeps a second loop from starting
C10_LoopRunningFlagCleared ==
  /\ pc = "await_cad"
  /\ stepCadLoopRunning
  /\ ~operationInFlight
  /\ session # NoSession
  /\ session.approved_image_version # 0

---------------------------------------------------------------------------
\* Properties of the handlers that share one session.

\* the requests that change the session and await their response
MutatingRequests ==
  Cardinality(outstanding) + (IF briefUploading THEN 1 ELSE 0)
    + Cardinality({ q \in pending : q.at # "refresh" })

\* C11: while one mutating request of the session is outstanding no other
\* mutating request is issued: at most one is outstanding at any time.
C11_OneMutatingRequestAtATime == MutatingRequests <= 1

\* C12: when the request of attempt i ends without a result (apiPost throws),
\* attempt i is recorded failed and the loop goes on: it awaits the next
\* attempt or its closing refresh, it is not ended by the error.
C12_RequestErrorIsAFailedAttempt ==
  [][ (pc = "await_cad" /\ ~success' /\ (pc' # "await_cad" \/ i' # i)) =>
        (cadAttemptStates'[i + 1].status = "failed" /\ pc' # "idle") ]_vars

\* a step in which a version other than the approved one becomes the approved one
ApprovedAnother ==
  /\ srv'.approved_image_version # 0
  /\ srv'.approved_image_version # srv.approved_image_version

\* C19: after the approval of a version other than the approved one the
\* session holds no CAD result, no attempt of the history keeps the status
\* success or failed, and no STEP download is offered.
C19_ReapprovalClearsCadState ==
  [][ ApprovedAnother =>
        /\ session'.cad_step_file = NoUrl
        /\ el'.downloadStepBtn = HiddenBtn
        /\ \A k \in 1..MaxAttempts :
             cadAttemptStates'[k].status \notin { "success", "failed" } ]_vars

---------------------------------------------------------------------------
\* Properties of the workflow.

\* a step in which the backend appends an image to the session
ImageAppended == Len(srv'.images) = Len(srv.images) + 1

\* a step in which generate2D makes its local update
LocallyAppended ==
  /\ ImageRequest("generate") \in pending
  /\ ImageRequest("generate") \notin pending'

\* a step in which generate2D or runManualEdit ends without an error
ImageHandlerSucceeded ==
  /\ \E q \in pending : q.at = "refresh"
  /\ pending' = { }
  /\ session' = NoSession

ApprovedIsListed(s) ==
  \/ s.approved_image_version = 0
  \/ \E k \in DOMAIN s.images : s.images[k] = s.approved_image_version

ApprovalMade ==
  /\ srv'.approved_image_version # 0
  /\ srv'.approved_image_version # srv.approved_image_version

\* a step in which approveCurrentForCad turns the click down
ApprovalRejected ==
  /\ notice' = "No image available to approve."
  /\ notice' # notice

\* C15: an approval asked for while the session holds no image is turned down
\* with a message and changes nothing: no approval is made, and the session of
\* the client and of the backend, the approved version and the active screen
\* stay as they are.
C15_ApprovalWithoutImageIsRejected ==
  [][ /\ ApprovalMade => ImagesOf(session) # << >>
      /\ ApprovalRejected =>
           /\ ImagesOf(session) = << >>
           /\ UNCHANGED << session, srv, cache, activeScreen, operationInFlight,
                           pending, el, loopVars >> ]_vars

\* the approval was turned down while the client showed no image, the backend
\* being in stage ConceptIteration
C15_RejectedWithoutImage ==
  /\ notice = "No image available to approve."
  /\ ImagesOf(session) = << >>
  /\ srv.step = ConceptIteration
  /\ srv.approved_image_version = 0

\* a step in which generateStepCad turns the click down
CadRejected ==
  /\ notice' # notice
  /\ notice' \in { "Approve a version first before generating STEP CAD.",
                   "Another operation is running. Please wait.",
                   "STEP CAD generation is not available yet.",
                   "CAD Query prompt cannot be empty." }

\* C16: a run of generateStepCad starts only with an approved version, no
\* operation in flight and a prompt that is not empty; a click without them is
\* turned down with a message and changes nothing: no request is issued, and
\* the attempt history, the stop flag, the loop-running flag and the in-flight
\* flag stay as they are.
C16_CadRejectionChangesNothing ==
  [][ /\ runs' # runs =>
           /\ ApprovedOf(session) # 0
           /\ ~operationInFlight
           /\ ~stepCadLoopRunning
           /\ Trim(currentStepCadPrompt) # NoText
      /\ CadRejected =>
           /\ \/ ApprovedOf(session) = 0
              \/ operationInFlight
              \/ stepCadLoopRunning
              \/ Trim(currentStepCadPrompt) = NoText
           /\ UNCHANGED << outstanding, requestCount, cadAttemptStates,
                           stepCadLoopStopRequested, stepCadLoopRunning,
                           operationInFlight, session, srv, cache, pc, i, runs,
                           el, pending, activeScreen >> ]_vars

\* the click was turned down because an edit of the approved session was in
\* flight
C16_RejectedWhileEditInFlight ==
  /\ notice = "Another operation is running. Please wait."
  /\ operationInFlight
  /\ ImageRequest("edit") \in pending
  /\ ApprovedOf(session) # 0
  /\ pc = "idle"
  /\ runs = 0

\* the stage of s and the presence of images, approved version and CAD result
StageAndPresence(s) ==
  << s.step, s.images # << >>, s.approved_image_version # 0, s.cad_step_file # NoUrl >>

\* what the client permits: generate 2D, run edit, approve, generate CAD
Permitted ==
  [generate2D |-> canGenerate2D,
   edit |-> canRunEditNow,
   approve |-> canApproveCurrent,
   cad |-> canGenerateStepCadNow]

\* C17: whether generate 2D, run edit, approve and generate CAD are permitted
\* is a function of the stage and of the presence of images, approved version
\* and CAD result only: a step that keeps those four keeps the four answers.
C17_PermissionFromStageAndPresence ==
  [][ (/\ session # NoSession
       /\ session' # NoSession
       /\ StageAndPresence(session') = StageAndPresence(session))
        => Permitted' = Permitted ]_vars

\* a step in which the session of the backend is cleared
SessionCleared == srv' = SrvClearedSession /\ srv # SrvClearedSession

\* a step in which a baseline is adopted
BaselineAdopted == srv'.baseline_adopted /\ ~srv.baseline_adopted

\* C18 as stated: the stage never decreases from one state to the next but by
\* a session clear.
C18_StageNeverDecreases ==
  [][ srv'.step < srv.step => SessionCleared ]_vars

\* C18: the stage of the session decreases from one state to the next only by
\* a session clear, by an image appended or a baseline adopted after an
\* approval (back to ConceptIteration), or by the approval of another version
\* after a CAD success (back to Approved); the stage the client shows decreases
\* only to the stage of the backend.
C18_StageDecreasesOnlyByClearOrInvalidation ==
  [][ /\ srv'.step < srv.step =>
           \/ SessionCleared
           \/ /\ ImageAppended \/ BaselineAdopted
              /\ srv.approved_image_version # 0
              /\ srv'.step = ConceptIteration
           \/ /\ ApprovedAnother
              /\ srv.step = CadReady
              /\ srv'.step = Approved
      /\ (/\ session # NoSession
          /\ session' # NoSession
          /\ session'.step < session.step) => session'.step = srv'.step ]_vars

\* an edit was appended after a CAD success: the backend is back in
\* ConceptIteration while the client still shows CadReady
C18_BackToConceptIteration ==
  /\ [ImageRequest("edit") EXCEPT !.at = "refresh"] \in pending
  /\ srv.step = ConceptIteration
  /\ session # NoSession
  /\ session.step = CadReady

\* a step in which the cache is cleared
CacheCleared == cache' # cache /\ \A key \in CacheKeys : cache'[key] = NoEntry

\* C20: a session clear resets every workflow field at once (stage Collecting,
\* no images, no approved version, no CAD result, empty attempt history) and
\* leaves the cache as it is; a cache clear leaves every session field as it is.
C20_ClearsAreIndependent ==
  [][ /\ SessionCleared =>
           /\ session' = SrvClearedSession
           /\ el'.downloadStepBtn = HiddenBtn
           /\ \A k \in 1..MaxAttempts : cadAttemptStates'[k].status = "inactive"
           /\ cache' = cache
      /\ CacheCleared => UNCHANGED << session, srv, cadAttemptStates >> ]_vars

---------------------------------------------------------------------------
\* Properties of the attempt history and of the flags.

\* C26: whenever no generateStepCad loop is running no attempt of the history
\* has the status running.
C26_NoRunningAttemptWithoutLoop ==
  ~stepCadLoopRunning => \A k \in Attempts : StatusOf(k) # "running"

\* C28: operationInFlight is true in every state in which an operation that
\* set it has not finished.
C28_FlagCoversOutstandingOperations ==
  (pc # "idle" \/ briefUploading \/ pending # { }) => operationInFlight

\* C25: the attempt history is a prefix of failed attempts, then at most one
\* attempt that is running, success or cancelled, then inactive attempts only;
\* so an attempt is started only after failed attempts, and at most one
\* attempt is recorded as success.
C25_FailedPrefixThenOneOpenAttempt ==
  /\ \A k \in Attempts :
       StatusOf(k) # "inactive" => \A j \in 0..(k - 1) : StatusOf(j) = "failed"
  /\ Cardinality({ k \in Attempts : StatusOf(k) = "success" }) <= 1

\* two failed attempts, the next one cancelled and the rest inactive
C25_FailedFailedCancelled ==
  /\ StatusOf(0) = "failed"
  /\ StatusOf(1) = "failed"
  /\ StatusOf(2) = "cancelled"
  /\ \A k \in Attempts : k > 2 => StatusOf(k) = "inactive"

---------------------------------------------------------------------------
\* Properties of the cache.

\* a response of an execution, not of the cache, was handled
ExecutionSucceeded ==
  /\ ResponseHandled
  /\ lastRes'.success
  /\ ~lastRes'.cached

---------------------------------------------------------------------------
\* Termination of a run.

\* a run of generateStepCad ends
RunEnds == pc # "idle" /\ pc' = "idle"

\* C27: when every awaited request eventually returns or fails, a run that was
\* started eventually ends; and a run ends with stepCadLoopRunning and
\* operationInFlight false, so that the gate of a new run is open.
C27_RunEndsWithFlagsCleared ==
  /\ [][ RunEnds =>
           /\ ~stepCadLoopRunning'
           /\ ~operationInFlight'
           /\ canGenerateStepCadNow' ]_vars
  /\ (pc # "idle") ~> (pc = "idle")

\* a run went through all attempts, each failed, and has ended with both flags
\* false
C27_EndedAfterLastAttempt ==
  /\ runs = 1
  /\ pc = "idle"
  /\ \A k \in Attempts : StatusOf(k) = "failed"
  /\ ~stepCadLoopRunning
  /\ ~operationInFlight
  /\ ~briefUploading

---------------------------------------------------------------------------
\* The record of a failed attempt, for error texts of every shape.

\* a line of n characters
LongLine(n) == [k \in 1..n |-> "a"]

\* error_detail of a failure response: none, blank, one line, lines with blanks
\* around them, and lines longer and shorter than the summary
ErrorTexts ==
  { NoText,
    << " ", "\n" >>,
    << "e" >>,
    << " ", "e", "\n", "x", " " >>,
    LongLine(SummaryLen + 1),
    << "\n" >> \o LongLine(SummaryLen + 2) \o << "\n", "x" >>,
    LongLine(SummaryLen - 1) \o << "\n", "x", "\n" >> }

\* cad_code of a failure response
CodeTexts == { NoText, << " ", "c", "\n" >> }

\* the backend answers with a failure that carries any of the texts
SrvTextOutcomes(req) ==
  { [res |-> FailureRes(code, err),
     srv |-> SrvWithFailure(srv, FailureRes(code, err), Trim(req.prompt)),
     cache |-> cache] : code \in CodeTexts, err \in ErrorTexts }

\* the awaited CAD request is answered with a failure
CadFailureResponse ==
  /\ pc = "await_cad"
  /\ i < MaxSummaryAttempts
  /\ \E r \in outstanding :
       \E out \in SrvTextOutcomes(r.req) : CadAnswered(r, out)
  /\ UNCHANGED << session, operationInFlight, stepCadLoopRunning,
                  stepCadLoopStopRequested, currentStepCadPrompt, storedStepPrompt,
                  prompt, stopAt, briefUploading, runs, flowVars >>

NextSummary ==
  \/ InitRefreshed
  \/ GenerateStepCadFlow
  \/ CadFailureResponse
  \/ CadRequestThrows

\* Runs of generateStepCad whose requests fail with error texts of every shape.
SpecSummary == Init /\ [][NextSummary]_vars

\* t is s without the blanks around it
IsTrimOf(t, s) ==
  /\ t = << >> \/ (~IsBlank(t[1]) /\ ~IsBlank(t[Len(t)]))
  /\ \E a \in 0..(Len(s) - Len(t)) :
       /\ \A j \in 1..a : IsBlank(s[j])
       /\ \A j \in (a + Len(t) + 1)..Len(s) : IsBlank(s[j])
       /\ SubSeq(s, a + 1, a + Len(t)) = t

\* sum is the first line of full, cut to SummaryLen characters
IsSummaryOf(sum, full) ==
  /\ Len(sum) <= SummaryLen
  /\ \A j \in 1..Len(sum) : sum[j] # "\n"
  /\ Len(sum) <= Len(full)
  /\ SubSeq(full, 1, Len(sum)) = sum
  /\ \/ Len(sum) = SummaryLen
     \/ Len(sum) = Len(full)
     \/ full[Len(sum) + 1] = "\n"

\* the response of attempt i was a failure
FailureHandled == ResponseHandled /\ ~IsSuccess(lastRes')

\* C24 as stated: the record of a failed attempt keeps the error text and the
\* code of the response unmodified, beside the one-line summary.
C24_FailureKeptUnmodified ==
  [][ FailureHandled =>
        LET rec == cadAttemptStates'[i + 1] IN
        /\ rec.status = "failed"
        /\ rec.fullError = lastRes'.error_detail
        /\ rec.codeText = lastRes'.cad_code
        /\ IsSummaryOf(rec.errorText, Trim(lastRes'.error_detail)) ]_vars

\* C24: a failed attempt is recorded failed; the recorded error text is the
\* error text of the response without the blanks around it, "CAD execution
\* failed." for a response without one; the recorded code is the code of the
\* response without the blanks around it, the code carried from the attempts
\* before for a response without one; the summary is the first line of the
\* recorded error text cut to 140 characters, empty for a blank text, so it has
\* no line break and at most 140 characters.
C24_FailureKeptTrimmedWithSummary ==
  [][ FailureHandled =>
        LET rec == cadAttemptStates'[i + 1] IN
        /\ rec.status = "failed"
        /\ IsTrimOf(rec.fullError, OrElse(lastRes'.error_detail, CadExecutionFailed))
        /\ IsTrimOf(rec.codeText, OrElse(lastRes'.cad_code, currentCode))
        /\ IsSummaryOf(rec.errorText, rec.fullError)
        /\ Len(rec.errorText) <= SummaryLen
        /\ \A j \in 1..Len(rec.errorText) : rec.errorText[j] # "\n" ]_vars

\* a failed attempt whose error text begins with a line longer than the summary:
\* the summary is cut, the error text is kept whole
C24_LongErrorCut ==
  /\ StatusOf(1) = "failed"
  /\ Len(cadAttemptStates[2].fullError) > SummaryLen + 1
  /\ Len(cadAttemptStates[2].errorText) = SummaryLen
  /\ cadAttemptStates[2].codeText # NoText

---------------------------------------------------------------------------
\* The CAD prompt that the user saves and clears.

\* what the user may have typed into the prompt textarea
PromptInputs == { << " " >>, CustomPrompt \o << " " >> }

\* the Save button of the prompt modal
SaveStepPrompt ==
  \E value \in PromptInputs :
    LET next == Trim(value) IN
    /\ IF next = NoText
         THEN /\ messages' = messages \cup
                   { "Prompt is empty. Use Clear Prompt to reset or enter text." }
              /\ UNCHANGED << currentStepCadPrompt, storedStepPrompt >>
         ELSE /\ currentStepCadPrompt' = next
              /\ storedStepPrompt' = next
              /\ messages' = messages \cup
                   { "CAD prompt saved. It will be reused in next sessions." }
    /\ UNCHANGED << session, srv, cache, operationInFlight, stepCadLoopRunning,
                    stepCadLoopStopRequested, cadAttemptStates, el, pc, i,
                    currentCode, currentError, success, prompt, outstanding,
                    lastRes, requestCount, stopAt, briefUploading, runs, flowVars >>

\* the Clear Prompt button of the prompt modal
ClearStepPrompt ==
  /\ storedStepPrompt' = NoText
  /\ currentStepCadPrompt' = DEFAULT_STEP_CAD_PROMPT
  /\ messages' = messages \cup { "CAD prompt reset to default." }
  /\ UNCHANGED << session, srv, cache, operationInFlight, stepCadLoopRunning,
                  stepCadLoopStopRequested, cadAttemptStates, el, pc, i,
                  currentCode, currentError, success, prompt, outstanding,
                  lastRes, requestCount, stopAt, briefUploading, runs, flowVars >>

NextPrompt ==
  \/ SessionRefreshed
  \/ GenerateStepCad
  \/ CadResponseFlow
  \/ RunRefreshed
  \/ SaveStepPrompt
  \/ ClearStepPrompt

\* Runs of generateStepCad between which the prompt is saved and cleared.
SpecPrompt == Init /\ [][NextPrompt]_vars

\* Clear Prompt was used and no prompt was saved since
PromptCleared ==
  /\ "CAD prompt reset to default." \in messages
  /\ storedStepPrompt = NoText

\* C29: a run of generateStepCad that starts after Clear Prompt, no prompt
\* having been saved since, sends the default prompt.
C29_ClearedPromptIsSent ==
  [][ (runs' = runs + 1 /\ PromptCleared) => prompt' = DEFAULT_STEP_CAD_PROMPT ]_vars

---------------------------------------------------------------------------
\* sendChat with a baseline decision: refreshSessionWithBaselineDelay.

\* Math.max(0, BASELINE_MIN_DELAY_MS - elapsed)
Remain(elapsed) ==
  IF BASELINE_MIN_DELAY_MS - elapsed > 0 THEN BASELINE_MIN_DELAY_MS - elapsed ELSE 0

\* updateFromSession(s)
UpdatedFromSession(s) ==
  /\ session' = s
  /\ el' = updateFromSessionEl(el, s)
  /\ currentStepCadPrompt' = updateFromSessionPrompt(s)
  /\ activeScreen' = updateFromSessionScreen(activeScreen, s)

\* what the steps of refreshSessionWithBaselineDelay leave alone
baselineKept ==
  << cache, operationInFlight, stepCadLoopRunning, stepCadLoopStopRequested,
     cadAttemptStates, storedStepPrompt, pc, i, currentCode, currentError,
     success, prompt, outstanding, lastRes, requestCount, stopAt, briefUploading,
     runs, pending, notice >>

\* sendChat: /api/chat answers the message that completes the specification with
\* a baseline decision message; refreshSessionWithBaselineDelay takes the time,
\* sets the loading state and issues the session request
SendChatDecision ==
  /\ session # NoSession
  /\ srv.step = Collecting
  /\ Cardinality(baselineRefreshes) < MaxBaselineRefreshes
  /\ now < MaxTicks * TickMs
  /\ \E found \in BOOLEAN : srv' = SrvChat(srv, found)
  /\ baselineLoadingInProgress' = TRUE
  /\ baselineRefreshes' = baselineRefreshes \cup
       { [id |-> CHOOSE k \in 1..MaxBaselineRefreshes :
                   \A r \in baselineRefreshes : r.id # k,
          start |-> now, issued |-> now, at |-> "refresh", wake |-> 0] }
  /\ UNCHANGED << session, el, currentStepCadPrompt, activeScreen, messages, now,
                  baselineKept >>

\* the end of refreshSessionWithBaselineDelay
BaselineLoadingDone(r) ==
  /\ baselineLoadingInProgress' = FALSE
  /\ baselineRefreshes' = baselineRefreshes \ { r }

\* await refreshSession() returns: the wait for the rest of the delay begins, or
\* there is none and the loading state is cleared
BaselineRefreshReturned ==
  \E r \in baselineRefreshes :
    /\ r.at = "refresh"
    /\ UpdatedFromSession(srv)
    /\ IF Remain(now - r.start) > 0
         THEN /\ baselineRefreshes' = (baselineRefreshes \ { r }) \cup
                   { [r EXCEPT !.at = "sleep", !.wake = now + Remain(now - r.start)] }
              /\ UNCHANGED baselineLoadingInProgress
         ELSE BaselineLoadingDone(r)
    /\ UNCHANGED << srv, messages, now, baselineKept >>

\* await refreshSession() throws: the submit handler reports the error
BaselineRefreshThrows ==
  \E r \in baselineRefreshes :
    /\ r.at = "refresh"
    /\ baselineRefreshes' = baselineRefreshes \ { r }
    /\ messages' = messages \cup { "Request failed" }
    /\ UNCHANGED << session, srv, el, currentStepCadPrompt, activeScreen,
                    baselineLoadingInProgress, now, baselineKept >>

\* await sleep(remain) is over
BaselineSleepDone ==
  \E r \in baselineRefreshes :
    /\ r.at = "sleep"
    /\ now >= r.wake
    /\ BaselineLoadingDone(r)
    /\ IF session # NoSession
         THEN UpdatedFromSession(session)
         ELSE UNCHANGED << session, el, currentStepCadPrompt, activeScreen >>
    /\ UNCHANGED << srv, messages, now, baselineKept >>

\* time passes
Tick ==
  /\ \/ now < MaxTicks * TickMs
     \/ \E r \in baselineRefreshes : r.at = "sleep" /\ now < r.wake
  /\ now' = now + TickMs
  /\ UNCHANGED << session, srv, el, currentStepCadPrompt, activeScreen, messages,
                  baselineLoadingInProgress, baselineRefreshes, baselineKept >>

NextBaseline ==
  \/ InitRefreshed
  \/ SendChatDecision
  \/ BaselineRefreshReturned
  \/ BaselineRefreshThrows
  \/ BaselineSleepDone
  \/ Tick
  \/ ClearSessionState

\* The baseline decision of the chat while time passes and the session is
\* cleared.
SpecBaseline == InitFlow /\ [][NextBaseline]_vars

\* The same program where time passes, every awaited session request returns
\* or throws, and every timer fires.
SpecBaselineLive ==
  /\ InitFlow
  /\ [][NextBaseline]_vars
  /\ WF_vars(BaselineRefreshThrows \/ BaselineRefreshReturned)
  /\ WF_vars(BaselineSleepDone)
  /\ WF_vars(Tick)

\* C21: a refreshSessionWithBaselineDelay issues its session request at its
\* start, and the baseline loading state is cleared only when, for each call
\* that set it and has not ended, the request has returned and at least
\* BASELINE_MIN_DELAY_MS have passed since the start of the call.
C21_ClearedAfterReturnAndFloor ==
  /\ [](\A r \in baselineRefreshes : r.issued = r.start)
  /\ [][ (baselineLoadingInProgress /\ ~baselineLoadingInProgress') =>
           \A r \in baselineRefreshes :
             /\ now - r.start >= BASELINE_MIN_DELAY_MS
             /\ r.at = "sleep" \/ r \notin baselineRefreshes' ]_vars

\* C30: whenever the baseline loading state is set it is cleared later.
C30_LoadingEventuallyCleared ==
  baselineLoadingInProgress ~> ~baselineLoadingInProgress

---------------------------------------------------------------------------
\* The workflow screens: tabs and the handlers that set the active screen.

\* computeAllowedScreen for the session state s
AllowedScreen(s) ==
  computeAllowedScreen(s.step, s.baseline_matches, s.images # << >>,
                       s.approved_image_version # 0)

\* approveVersion or the skip handler awaiting its refreshSession
ScreenRequest(op) == [op |-> op, at |-> "refresh", req |-> NoResponse]

\* a click on tab n: tab 1 and tab 5 always switch, tabs 2..4 unless disabled
TabClick ==
  /\ session # NoSession
  /\ \E n \in 1..5 :
       activeScreen' = IF n \in { 1, 5 } \/ AllowedScreen(session) >= n
                         THEN n ELSE activeScreen
  /\ UNCHANGED << session, srv, cache, operationInFlight, currentStepCadPrompt, el,
                  briefUploading, pending, notice, baselineVars, loopVars >>

\* approveVersion(img): /api/version/approve answered, refreshSession awaited
ApproveRequested ==
  /\ session # NoSession
  /\ pending = { }
  /\ SrvAllows("approve", srv)
  /\ \E version \in Versions :
       /\ \E k \in DOMAIN session.images : session.images[k] = version
       /\ \E k \in DOMAIN srv.images : srv.images[k] = version
       /\ srv' = SrvApprove(srv, version)
  /\ pending' = { ScreenRequest("approve") }
  /\ UNCHANGED << session, cache, operationInFlight, currentStepCadPrompt, el,
                  briefUploading, activeScreen, notice, baselineVars, loopVars >>

\* approveVersion(img): refreshSession returned, setActiveScreen(3)
ApproveDone ==
  /\ ScreenRequest("approve") \in pending
  /\ pending' = pending \ { ScreenRequest("approve") }
  /\ Refreshed(srv)
  /\ activeScreen' = 3
  /\ UNCHANGED << srv, cache, operationInFlight, briefUploading, notice,
                  baselineVars, loopVars >>

\* baselineSkipBtn: /api/baseline/skip answered, refreshSession awaited
BaselineSkipRequested ==
  /\ session # NoSession
  /\ session.step >= 3 /\ session.images = << >>
  /\ pending = { }
  /\ SrvAllows("skip", srv)
  /\ srv' = SrvSkipBaseline(srv)
  /\ pending' = { ScreenRequest("skip") }
  /\ UNCHANGED << session, cache, operationInFlight, currentStepCadPrompt, el,
                  briefUploading, activeScreen, notice, baselineVars, loopVars >>

\* baselineSkipBtn: refreshSession returned, setActiveScreen(2)
BaselineSkipDone ==
  /\ ScreenRequest("skip") \in pending
  /\ pending' = pending \ { ScreenRequest("skip") }
  /\ Refreshed(srv)
  /\ activeScreen' = 2
  /\ UNCHANGED << srv, cache, operationInFlight, briefUploading, notice,
                  baselineVars, loopVars >>

NextScreens ==
  \/ InitRefreshed
  \/ SendChat
  \/ TabClick
  \/ BaselineSkipRequested
  \/ BaselineSkipDone
  \/ AdoptBaseline
  \/ ApproveRequested
  \/ ApproveDone
  \/ Generate2D
  \/ Generate2DResponse
  \/ Generate2DThrows
  \/ Generate2DDone
  \/ ClearSessionState

\* The handlers that set the active screen, each request of theirs answered
\* at its own time.
SpecScreens == InitFlow /\ [][NextScreens]_vars

\* C22: while a session is loaded the active screen, unless it is the asset
\* catalog, is no greater than computeAllowedScreen of the session.
C22_ScreenWithinAllowed ==
  (session # NoSession /\ activeScreen # 5) => activeScreen <= AllowedScreen(session)

====
